---------------------------- MODULE Spec2Model ----------------------------
(***************************************************************************)
(* A model of src/project.py: the ESG portfolio dashboard.                 *)
(*                                                                         *)
(* A table (pandas DataFrame) is a record [columns, rows]: the set of its  *)
(* column labels and the sequence of its rows, each row a function from    *)
(* the column labels to cells.  A cell is a sequence of length at most     *)
(* one: <<>> is a missing value (NaN), <<v>> holds the value v.  An        *)
(* operation that raises yields the record [error |-> <exception name>].   *)
(*                                                                         *)
(* Weights and weight bounds are in percent (the sliders' unit, before the *)
(* division by 100 of lines 43 and 46).                                    *)
(***************************************************************************)
EXTENDS Integers, Sequences, FiniteSets, TLC

\* ------------------------------------------------------------------------
\* Bounds of the model
\* ------------------------------------------------------------------------

\* Render cycles (script runs) in one process.
MaxCycles == 6

\* ------------------------------------------------------------------------
\* Tables
\* ------------------------------------------------------------------------

NaN == <<>>

Raise(name) == [error |-> name]

IsError(x) == "error" \in DOMAIN x

IsFrame(x) == "columns" \in DOMAIN x

Restrict(f, S) == [c \in S |-> f[c]]

Range(s) == {s[i] : i \in 1..Len(s)}

\* df[col] of a column of the frame, as the set of its cells' values.
ColumnValues(df, col) == {r[col][1] : r \in {x \in Range(df.rows) : x[col] # NaN}}

\* df.Symbol / df['Symbol'] as a set.
Symbols(df) == IF "Symbol" \in df.columns THEN ColumnValues(df, "Symbol") ELSE {}

\* The row of the frame whose Symbol is sym.
RowOf(df, sym) == CHOOSE r \in Range(df.rows) : r["Symbol"] = <<sym>>

\* Mutant of dropna_columns_all: how='any', a column goes when any row
\* misses it.
DropAnyMissingColumns(df) ==
    LET keep == {c \in df.columns : \A i \in 1..Len(df.rows) : df.rows[i][c] # NaN}
    IN  [columns |-> keep, rows |-> [i \in 1..Len(df.rows) |-> Restrict(df.rows[i], keep)]]

\* DataFrame.dropna(axis=1, how='all'): a column stays iff some row holds a
\* value in it; a frame with no rows loses every column.
dropna_columns_all(df) ==
    LET keep == {c \in df.columns : \E i \in 1..Len(df.rows) : df.rows[i][c] # NaN}
    IN  [columns |-> keep, rows |-> [i \in 1..Len(df.rows) |-> Restrict(df.rows[i], keep)]]

\* DataFrame.drop(columns=labels): KeyError unless every label is a column.
drop_columns(df, labels) ==
    IF ~(labels \subseteq df.columns) THEN Raise("KeyError")
    ELSE [columns |-> df.columns \ labels,
          rows |-> [i \in 1..Len(df.rows) |-> Restrict(df.rows[i], df.columns \ labels)]]

\* Series.isin(values): a missing cell is in no list of labels.
isin(cell, values) == cell # NaN /\ cell[1] \in values

\* Mutant of gt: >= for >.
GreaterOrEqual(cell, t) == cell # NaN /\ cell[1] >= t

\* Mutant of gt: a missing cell passes the comparison.
MissingPasses(cell, t) == IF cell = NaN THEN TRUE ELSE cell[1] > t

\* Series > scalar: a missing cell compares False.
gt(cell, t) == cell # NaN /\ cell[1] > t

\* df[mask]: the rows the mask selects, in order.
SelectRows(df, Test(_)) == [columns |-> df.columns, rows |-> SelectSeq(df.rows, Test)]

AdminColumns == {"SEC filings", "CIK", "ticker_name"}

\* ------------------------------------------------------------------------
\* clean_data (lines 78-90)
\* ------------------------------------------------------------------------

\* Mutant of exclude_sectors: the mask of line 80 is not applied.
KeepsExcluded(df, selected_sector) == df

\* combined_df[~combined_df['GICS Sub-Industry'].isin(selected_sector)]
exclude_sectors(df, selected_sector) ==
    LET Keep(r) == ~isin(r["GICS Sub-Industry"], selected_sector)
    IN  SelectRows(df, Keep)

\* df[df['esg_score'] > min_esg_score]
above_threshold(df, min_esg_score) ==
    LET Keep(r) == gt(r["esg_score"], min_esg_score)
    IN  SelectRows(df, Keep)

\* Lines 80, 81, 85 in turn; a label that is not a column raises KeyError.
\* (An exception in place of the argument stands for a call that cannot
\* happen, and is passed on.)
clean_data(combined_df, selected_sector, min_esg_score) ==
    IF IsError(combined_df) THEN combined_df
    ELSE IF "GICS Sub-Industry" \notin combined_df.columns THEN Raise("KeyError")
    ELSE LET f1 == exclude_sectors(combined_df, selected_sector)
             f2 == drop_columns(f1, AdminColumns)
         IN  IF IsError(f2) THEN f2
             ELSE IF "esg_score" \notin f2.columns THEN Raise("KeyError")
             ELSE dropna_columns_all(above_threshold(f2, min_esg_score))

\* ------------------------------------------------------------------------
\* load_price_data (lines 101-110), the function under the cache
\* ------------------------------------------------------------------------

\* data is what yf.download returned: an exception, or a record of price
\* fields each holding a table with one column per ticker.
load_price_data(data) ==
    IF IsError(data) THEN data
    ELSE IF "Adj_Close" \notin DOMAIN data THEN Raise("KeyError")
    ELSE dropna_columns_all(data.Adj_Close)

\* ------------------------------------------------------------------------
\* State
\* ------------------------------------------------------------------------

VARIABLES
    \* --- the function-level specification (SpecPure) ---
    fn,          \* the function applied: "clean_data" or "load_price_data"
    arg,         \* its arguments
    step,        \* "init", "returned", "reapplied"
    ret,         \* what the call returned (a table or an error)
    ret2,        \* what clean_data returned when applied to ret
    \* --- the process: caches and session (Spec) ---
    cycle,       \* render cycles (script runs) started so far
    pc,          \* the stage main() is about to run, or how the cycle ended
    widgets,     \* the session's widget values
    pressed,     \* what st.button returns in this cycle
    snp_cache,   \* st.cache of load_snp_data
    esg_cache,   \* st.cache of load_esg_scores
    price_cache, \* st.cache of load_price_data: a set of [key, value]
    reads,       \* fetches performed: [snp, esg] (page reads, file reads)
    market,      \* what the price provider has, for this run
    \* --- the locals of the running cycle ---
    loaded,      \* [snp, esg]: what the two cached loaders returned
    combined_df,
    inputs,      \* what set_sidebar returned
    combined_df_filtered,
    cleaned_adj_close,
    solver_bounds,   \* the weight_bounds handed to CLA
    asset_weights,
    stages,      \* the stages run in this cycle, in order
    error        \* the exception that ended the cycle, if any

pureVars == <<fn, arg, step, ret, ret2>>

procVars == <<cycle, pc, widgets, pressed, snp_cache, esg_cache, price_cache, reads, market>>

localVars == <<loaded, combined_df, inputs, combined_df_filtered, cleaned_adj_close,
               solver_bounds, asset_weights, stages, error>>

appVars == <<procVars, localVars>>

vars == <<pureVars, appVars>>

NoValue == [none |-> TRUE]

NoLocals == [snp |-> NoValue, esg |-> NoValue]

\* The process before its first render cycle.
AppIdle ==
    /\ cycle = 0
    /\ pc = "idle"
    /\ widgets = NoValue
    /\ pressed = FALSE
    /\ snp_cache = NoValue
    /\ esg_cache = NoValue
    /\ price_cache = {}
    /\ reads = [snp |-> 0, esg |-> 0]
    /\ loaded = NoLocals
    /\ combined_df = NoValue
    /\ inputs = NoValue
    /\ combined_df_filtered = NoValue
    /\ cleaned_adj_close = NoValue
    /\ solver_bounds = NoValue
    /\ asset_weights = NoValue
    /\ stages = <<>>
    /\ error = NoValue

\* ------------------------------------------------------------------------
\* Inputs of the function-level specification
\* ------------------------------------------------------------------------

\* Tickers in the order sort_values(by="Symbol") gives them.
SymbolOrder == <<"A", "B", "C", "D", "E">>

PureTickers == {"A", "B", "C"}

PureSectors == {"Banks", "Tobacco"}

\* Selectable sectors: one of them labels no row of any universe.
PureSelectable == PureSectors \cup {"Casinos & Gaming"}

PureScores == {NaN, <<70>>, <<80>>, <<90>>}

PureThresholds == {70, 80}

UniverseColumns ==
    {"Symbol", "GICS Sub-Industry", "esg_score", "Founded"} \cup AdminColumns

\* The combined universe holding the tickers T, sorted by Symbol.
MakeUniverse(T, sector, score, founded) ==
    LET In(s) == s \in T
        syms == SelectSeq(SymbolOrder, In)
    IN  [columns |-> UniverseColumns,
         rows |-> [i \in 1..Len(syms) |->
                    [c \in UniverseColumns |->
                       CASE c = "Symbol" -> <<syms[i]>>
                         [] c = "GICS Sub-Industry" -> <<sector[syms[i]]>>
                         [] c = "esg_score" -> score[syms[i]]
                         [] c = "Founded" -> founded[syms[i]]
                         [] c = "SEC filings" -> <<"reports">>
                         [] c = "CIK" -> <<"cik">>
                         [] c = "ticker_name" -> <<syms[i]>>]]]

\* Trading days of a price table.
PriceDays == 2

PriceCells == {NaN, <<"price">>}

\* A price field of the provider's answer: one column per ticker of T.
PriceTables(T) ==
    {[columns |-> T, rows |-> [d \in 1..PriceDays |-> [t \in T |-> col[t][d]]]] :
        col \in [T -> [1..PriceDays -> PriceCells]]}

ProviderAnswers(T) ==
    {Raise("ProviderError")}
    \cup {[Close |-> tb] : tb \in PriceTables(T)}
    \cup {[Close |-> tb, Adj_Close |-> tb] : tb \in PriceTables(T)}

PureInit ==
    /\ AppIdle
    /\ market = [unavailable |-> {}, adj_close |-> TRUE]
    /\ step = "init"
    /\ ret = NoValue
    /\ ret2 = NoValue
    /\ \/ /\ fn = "clean_data"
          /\ \E T \in SUBSET PureTickers :
               \E sector \in [T -> PureSectors], score \in [T -> PureScores],
                  founded \in [T -> {NaN, <<"1900">>}] :
                 \E S \in SUBSET PureSelectable, t \in PureThresholds :
                    arg = [combined_df |-> MakeUniverse(T, sector, score, founded),
                           selected_sector |-> S, min_esg_score |-> t]
       \/ /\ fn = "load_price_data"
          /\ \E T \in SUBSET PureTickers : \E data \in ProviderAnswers(T) :
               arg = [data |-> data]

\* clean_data(combined_df, selected_sector, min_esg_score)
ApplyCleanData ==
    /\ fn = "clean_data" /\ step = "init"
    /\ ret' = clean_data(arg.combined_df, arg.selected_sector, arg.min_esg_score)
    /\ step' = "returned"
    /\ UNCHANGED <<fn, arg, ret2, appVars>>

\* clean_data applied, with the same parameters, to what it returned
ReapplyCleanData ==
    /\ fn = "clean_data" /\ step = "returned"
    /\ ret2' = clean_data(ret, arg.selected_sector, arg.min_esg_score)
    /\ step' = "reapplied"
    /\ UNCHANGED <<fn, arg, ret, appVars>>

\* the body of load_price_data on the provider's answer
ApplyLoadPriceData ==
    /\ fn = "load_price_data" /\ step = "init"
    /\ ret' = load_price_data(arg.data)
    /\ step' = "returned"
    /\ UNCHANGED <<fn, arg, ret2, appVars>>

PureNext == ApplyCleanData \/ ReapplyCleanData \/ ApplyLoadPriceData

SpecPure == PureInit /\ [][PureNext]_vars

\* ------------------------------------------------------------------------
\* The environment of the process: reference page, score file, provider
\* ------------------------------------------------------------------------

SnpColumns == {"Symbol", "GICS Sub-Industry", "SEC filings", "CIK", "Founded"}

EsgColumns == {"Symbol", "esg_score", "ticker_name"}

SectorOf ==
    [A |-> "Aerospace & Defense", B |-> "Banks", C |-> "Casinos & Gaming",
     D |-> "Banks", E |-> "Tobacco"]

ScoreOf == [A |-> <<90>>, B |-> <<85>>, C |-> NaN, D |-> <<95>>, E |-> <<75>>]

\* A constituents table as pd.read_html gives it, its rows in page order.
SnpTable(syms, cols) ==
    [columns |-> cols,
     rows |-> [i \in 1..Len(syms) |->
                [c \in cols |->
                   CASE c = "Symbol" -> <<syms[i]>>
                     [] c = "GICS Sub-Industry" -> <<SectorOf[syms[i]]>>
                     [] c = "Founded" -> NaN
                     [] OTHER -> <<"text">>]]]

\* A score table as pd.read_excel gives it.
EsgTable(syms, cols) ==
    [columns |-> cols,
     rows |-> [i \in 1..Len(syms) |->
                [c \in cols |->
                   CASE c = "Symbol" -> <<syms[i]>>
                     [] c = "esg_score" -> ScoreOf[syms[i]]
                     [] OTHER -> <<"text">>]]]

\* What reading the reference page can give: the page, the page after a
\* constituent left, after a column was removed, with another key column,
\* or no page at all.
SnpAnswers ==
    {SnpTable(<<"B", "A", "C", "E", "D">>, SnpColumns),
     SnpTable(<<"A", "B", "C", "D">>, SnpColumns),
     SnpTable(<<"A", "B", "C", "D", "E">>, SnpColumns \ {"SEC filings"}),
     SnpTable(<<"A", "B", "C", "D", "E">>, SnpColumns \ {"Symbol"}),
     Raise("URLError")}

\* What reading the score file can give.
EsgAnswers ==
    {EsgTable(<<"A", "B", "C", "D", "E">>, EsgColumns),
     EsgTable(<<"A", "B", "C", "D", "E">>, EsgColumns \ {"Symbol"}),
     Raise("FileNotFoundError")}

\* The market of this run: the tickers the provider has no price for, and
\* whether its answer carries an 'Adj Close' field.
Markets ==
    {[unavailable |-> u, adj_close |-> a] :
        u \in {{}, {"B"}, {"B", "D"}}, a \in BOOLEAN}

\* What yf.download(tickers, period="ytd", interval="1D") can give: an
\* exception, or one price column per requested ticker, entirely missing for
\* the tickers the provider cannot find.
yf_download(tickers, m) ==
    LET tb == [columns |-> tickers,
               rows |-> [d \in 1..PriceDays |->
                          [t \in tickers |-> IF t \in m.unavailable THEN NaN ELSE <<"price">>]]]
    IN  {Raise("ProviderError"),
         IF m.adj_close THEN [Close |-> tb, Adj_Close |-> tb] ELSE [Close |-> tb]}

\* ------------------------------------------------------------------------
\* The solver (pypfopt CLA) as the adapter sees it
\* ------------------------------------------------------------------------

\* Weights, in percent.
WeightGrid == {-50, 0, 50, 100}

RECURSIVE SumOver(_, _)
SumOver(w, S) ==
    IF S = {} THEN 0
    ELSE LET t == CHOOSE x \in S : TRUE IN w[t] + SumOver(w, S \ {t})

\* CLA(mu, Sigma, weight_bounds).max_sharpe() / .min_volatility(): a fully
\* invested portfolio over the columns of the price table with every weight
\* within the bounds it was handed, or an exception (no such portfolio, a
\* degenerate covariance, no asset at all).
CLA(tickers, bounds, objective_fn) ==
    {Raise("SolverError")}
    \cup (IF objective_fn \in {"Max Sharpe", "Min Vol"}
          THEN {w \in [tickers -> WeightGrid] :
                  /\ tickers # {}
                  /\ \A t \in tickers : bounds[1] <= w[t] /\ w[t] <= bounds[2]
                  /\ SumOver(w, tickers) = 100}
          ELSE {})

\* ------------------------------------------------------------------------
\* load_all_data (lines 60-76)
\* ------------------------------------------------------------------------

\* Mutant of cache_hit: the loaders are not cached.
NeverCached(cache) == FALSE

\* @st.cache of a function without arguments: the stored return value, if
\* any, for the life of the process.
cache_hit(cache) == cache # NoValue

\* pd.merge(snp_data, esg_scores, on='Symbol').sort_values(by="Symbol")
merge_on_symbol(snp, esg) ==
    IF "Symbol" \notin snp.columns \/ "Symbol" \notin esg.columns THEN Raise("KeyError")
    ELSE LET In(sym) == sym \in Symbols(snp) /\ sym \in Symbols(esg)
             syms == SelectSeq(SymbolOrder, In)
             cols == snp.columns \cup esg.columns
         IN  [columns |-> cols,
              rows |-> [i \in 1..Len(syms) |->
                         [c \in cols |-> IF c \in snp.columns THEN RowOf(snp, syms[i])[c]
                                         ELSE RowOf(esg, syms[i])[c]]]]

\* ------------------------------------------------------------------------
\* set_sidebar (lines 34-58)
\* ------------------------------------------------------------------------

DefaultSectors == {"Tobacco", "Casinos & Gaming", "Aerospace & Defense"}

\* The widgets' values in a new session: the value= of each widget.  The
\* risk-free rate (line 55) only enters the reported performance figures
\* (lines 126, 144), not the weights, and is left out.
DefaultWidgets ==
    [sectors |-> DefaultSectors, max_slider |-> 10, min_slider |-> 0,
     esg_slider |-> 80, objective |-> "Max Sharpe"]

\* The values the user moves the widgets to.
SectorChoices ==
    {DefaultSectors, DefaultSectors \ {"Aerospace & Defense"}, DefaultSectors \cup {"Banks"}}

MaxSliderChoices == {10, 50, 100}

MinSliderChoices == {-50, 0}

EsgSliderChoices == {80, 90}

ObjectiveChoices == {"Max Sharpe", "Min Vol"}

\* One widget moved to another value.
WidgetChanges(w) ==
    ({[w EXCEPT !.sectors = x] : x \in SectorChoices}
     \cup {[w EXCEPT !.max_slider = x] : x \in MaxSliderChoices}
     \cup {[w EXCEPT !.min_slider = x] : x \in MinSliderChoices}
     \cup {[w EXCEPT !.esg_slider = x] : x \in EsgSliderChoices}
     \cup {[w EXCEPT !.objective = x] : x \in ObjectiveChoices}) \ {w}

\* What set_sidebar returns; the multiselect raises when a default is not
\* among its options.
set_sidebar(w, df) ==
    IF ~(DefaultSectors \subseteq ColumnValues(df, "GICS Sub-Industry"))
    THEN Raise("StreamlitAPIException")
    ELSE [selected_sector |-> w.sectors, min_wt |-> w.min_slider, max_wt |-> w.max_slider,
          min_esg_score |-> w.esg_slider, objective_fn |-> w.objective]

\* ------------------------------------------------------------------------
\* display_filtered_universe (lines 92-97)
\* ------------------------------------------------------------------------

display_filtered_universe(df) ==
    IF "Symbol" \notin df.columns THEN Raise("AttributeError") ELSE df

\* ------------------------------------------------------------------------
\* The cache of load_price_data (line 100)
\* ------------------------------------------------------------------------

\* Mutant of price_cache_key: the call is keyed by the function alone.
FunctionIdentityKey(df) == "load_price_data"

\* @st.cache keys a call by the function and the value of its arguments.
price_cache_key(df) == df

Cached(key) == {e \in price_cache : e.key = key}

\* ------------------------------------------------------------------------
\* run_ef_model (lines 112-147) and its call (line 189)
\* ------------------------------------------------------------------------

\* Mutant of weight_bounds_of: the two bounds in the other order.
MaxThenMin(in) == <<in.max_wt, in.min_wt>>

\* weight_bounds=(min_wt, max_wt) of line 189
weight_bounds_of(in) == <<in.min_wt, in.max_wt>>

\* min_wt, max_wt = weight_bounds; CLA(..., weight_bounds=(min_wt, max_wt))
cla_bounds(weight_bounds) == <<weight_bounds[1], weight_bounds[2]>>

\* {key: value for (key, value) in asset_weights.items() if value != 0}
clean_wts(weights) == Restrict(weights, {t \in DOMAIN weights : weights[t] # 0})

\* ------------------------------------------------------------------------
\* main (lines 175-189): one render cycle, stage by stage
\* ------------------------------------------------------------------------

StageOrder ==
    <<"load_all_data", "set_sidebar", "clean_data", "display_filtered_universe",
      "load_price_data", "run_ef_model">>

Ended == {"idle", "stopped", "halted", "finished"}

\* Mutant of next_pc: the exception is swallowed and the run goes on.
ContinuesAfterError(result, next) == next

\* No stage is wrapped in a handler: an exception ends the script run.
next_pc(result, next) == IF IsError(result) THEN "halted" ELSE next

error_of(stage, result) ==
    IF IsError(result) THEN [stage |-> stage, exception |-> result.error] ELSE NoValue

\* Mutant of button_gate: the price load is not gated.
AlwaysLoads(p) == TRUE

\* if st.button(...): ... else: st.stop()
button_gate(p) == p

\* A script run starts from scratch: no local of the last run survives.
ResetLocals ==
    /\ loaded' = NoLocals
    /\ combined_df' = NoValue
    /\ inputs' = NoValue
    /\ combined_df_filtered' = NoValue
    /\ cleaned_adj_close' = NoValue
    /\ solver_bounds' = NoValue
    /\ asset_weights' = NoValue
    /\ stages' = <<>>
    /\ error' = NoValue

Begin ==
    /\ pc \in Ended
    /\ cycle < MaxCycles
    /\ cycle' = cycle + 1
    /\ pc' = "load_all_data"
    /\ ResetLocals
    /\ UNCHANGED <<snp_cache, esg_cache, price_cache, reads, market, pureVars>>

\* The sidebar of the last run was drawn to its end.
SidebarShown ==
    /\ Len(stages) >= 2
    /\ IF error = NoValue THEN TRUE ELSE error.stage # "set_sidebar"

\* The trigger button of the last run was drawn.
ButtonShown ==
    /\ Len(stages) >= 4
    /\ IF error = NoValue THEN TRUE ELSE error.stage # "display_filtered_universe"

\* A browser opens (or reloads) the page: a new session, widgets at their
\* defaults.
OpenPage ==
    /\ Begin
    /\ widgets' = DefaultWidgets
    /\ pressed' = FALSE

\* The user moves one sidebar widget: the script reruns.
ChangeWidget ==
    /\ Begin
    /\ SidebarShown
    /\ \E w \in WidgetChanges(widgets) : widgets' = w
    /\ pressed' = FALSE

\* The user presses 'Load Price data for N tickers': the script reruns, and
\* st.button returns True in that run only.
ClickButton ==
    /\ Begin
    /\ ButtonShown
    /\ widgets' = widgets
    /\ pressed' = TRUE

\* combined_df = load_all_data()
LoadAllData ==
    /\ pc = "load_all_data"
    /\ stages' = Append(stages, "load_all_data")
    /\ \E snp \in (IF cache_hit(snp_cache) THEN {snp_cache} ELSE SnpAnswers) :
         LET snp_read == IF cache_hit(snp_cache) THEN 0 ELSE 1 IN
         IF IsError(snp)
         THEN /\ pc' = next_pc(snp, "set_sidebar")
              /\ error' = error_of("load_all_data", snp)
              /\ reads' = [reads EXCEPT !.snp = @ + snp_read]
              /\ UNCHANGED <<snp_cache, esg_cache, loaded, combined_df>>
         ELSE \E esg \in (IF cache_hit(esg_cache) THEN {esg_cache} ELSE EsgAnswers) :
                LET esg_read == IF cache_hit(esg_cache) THEN 0 ELSE 1
                    merged == IF IsError(esg) THEN esg ELSE merge_on_symbol(snp, esg)
                IN  /\ snp_cache' = snp
                    /\ esg_cache' = IF IsError(esg) THEN esg_cache ELSE esg
                    /\ reads' = [snp |-> reads.snp + snp_read, esg |-> reads.esg + esg_read]
                    /\ loaded' = [snp |-> snp, esg |-> IF IsError(esg) THEN NoValue ELSE esg]
                    /\ combined_df' = IF IsError(merged) THEN NoValue ELSE merged
                    /\ pc' = next_pc(merged, "set_sidebar")
                    /\ error' = error_of("load_all_data", merged)
    /\ UNCHANGED <<cycle, widgets, pressed, price_cache, market, inputs, combined_df_filtered,
                   cleaned_adj_close, solver_bounds, asset_weights, pureVars>>

\* selected_sector, min_wt, max_wt, ... = set_sidebar(combined_df)
SetSidebar ==
    /\ pc = "set_sidebar"
    /\ stages' = Append(stages, "set_sidebar")
    /\ LET r == set_sidebar(widgets, combined_df)
       IN  /\ inputs' = IF IsError(r) THEN NoValue ELSE r
           /\ pc' = next_pc(r, "clean_data")
           /\ error' = error_of("set_sidebar", r)
    /\ UNCHANGED <<cycle, widgets, pressed, snp_cache, esg_cache, price_cache, reads, market,
                   loaded, combined_df, combined_df_filtered, cleaned_adj_close,
                   solver_bounds, asset_weights, pureVars>>

\* combined_df_filtered = clean_data(combined_df, selected_sector, min_esg_score)
CleanData ==
    /\ pc = "clean_data"
    /\ stages' = Append(stages, "clean_data")
    /\ LET r == clean_data(combined_df, inputs.selected_sector, inputs.min_esg_score)
       IN  /\ combined_df_filtered' = IF IsError(r) THEN NoValue ELSE r
           /\ pc' = next_pc(r, "display_filtered_universe")
           /\ error' = error_of("clean_data", r)
    /\ UNCHANGED <<cycle, widgets, pressed, snp_cache, esg_cache, price_cache, reads, market,
                   loaded, combined_df, inputs, cleaned_adj_close,
                   solver_bounds, asset_weights, pureVars>>

\* display_filtered_universe(combined_df_filtered)
DisplayFilteredUniverse ==
    /\ pc = "display_filtered_universe"
    /\ stages' = Append(stages, "display_filtered_universe")
    /\ LET r == display_filtered_universe(combined_df_filtered)
       IN  /\ pc' = next_pc(r, "button")
           /\ error' = error_of("display_filtered_universe", r)
    /\ UNCHANGED <<cycle, widgets, pressed, snp_cache, esg_cache, price_cache, reads, market,
                   loaded, combined_df, inputs, combined_df_filtered, cleaned_adj_close,
                   solver_bounds, asset_weights, pureVars>>

\* if st.button(...): (the price load) else: st.stop()
Button ==
    /\ pc = "button"
    /\ pc' = IF button_gate(pressed) THEN "load_price_data" ELSE "stopped"
    /\ UNCHANGED <<cycle, widgets, pressed, snp_cache, esg_cache, price_cache, reads, market,
                   localVars, pureVars>>

\* cleaned_adj_close = load_price_data(combined_df_filtered), under st.cache
LoadPriceData ==
    /\ pc = "load_price_data"
    /\ stages' = Append(stages, "load_price_data")
    /\ LET key == price_cache_key(combined_df_filtered) IN
       IF Cached(key) # {}
       THEN /\ cleaned_adj_close' = (CHOOSE e \in Cached(key) : TRUE).value
            /\ pc' = "run_ef_model"
            /\ UNCHANGED <<price_cache, error>>
       ELSE \E data \in yf_download(Symbols(combined_df_filtered), market) :
              LET r == load_price_data(data)
              IN  /\ cleaned_adj_close' = IF IsError(r) THEN NoValue ELSE r
                  /\ price_cache' = IF IsError(r) THEN price_cache
                                    ELSE price_cache \cup {[key |-> key, value |-> r]}
                  /\ pc' = next_pc(r, "run_ef_model")
                  /\ error' = error_of("load_price_data", r)
    /\ UNCHANGED <<cycle, widgets, pressed, snp_cache, esg_cache, reads, market,
                   loaded, combined_df, inputs, combined_df_filtered,
                   solver_bounds, asset_weights, pureVars>>

\* asset_weights = run_ef_model(cleaned_adj_close, weight_bounds=(min_wt, max_wt), ...)
RunEfModel ==
    /\ pc = "run_ef_model"
    /\ stages' = Append(stages, "run_ef_model")
    /\ LET bounds == cla_bounds(weight_bounds_of(inputs)) IN
       /\ solver_bounds' = bounds
       /\ \E r \in CLA(cleaned_adj_close.columns, bounds, inputs.objective_fn) :
            /\ asset_weights' = IF IsError(r) THEN NoValue ELSE r
            /\ pc' = next_pc(r, "finished")
            /\ error' = error_of("run_ef_model", r)
    /\ UNCHANGED <<cycle, widgets, pressed, snp_cache, esg_cache, price_cache, reads, market,
                   loaded, combined_df, inputs, combined_df_filtered, cleaned_adj_close,
                   pureVars>>

Init ==
    /\ AppIdle
    /\ market \in Markets
    /\ fn = "none" /\ arg = NoValue /\ step = "none" /\ ret = NoValue /\ ret2 = NoValue

Next ==
    \/ OpenPage
    \/ ChangeWidget
    \/ ClickButton
    \/ LoadAllData
    \/ SetSidebar
    \/ CleanData
    \/ DisplayFilteredUniverse
    \/ Button
    \/ LoadPriceData
    \/ RunEfModel

Spec == Init /\ [][Next]_vars

\* ------------------------------------------------------------------------
\* Claims about clean_data and load_price_data (SpecPure)
\* ------------------------------------------------------------------------

Filtered == fn = "clean_data" /\ step # "init"

\* A record of the universe that the filter is to keep: its category is not
\* excluded and its score is present and strictly above the threshold.
Qualifies(r, S, t) ==
    /\ r["GICS Sub-Industry"][1] \notin S
    /\ r["esg_score"] # <<>>
    /\ r["esg_score"][1] > t

Qualifying == {r \in Range(arg.combined_df.rows) :
                 Qualifies(r, arg.selected_sector, arg.min_esg_score)}

\* C1: the records clean_data returns are exactly the records of the universe
\* whose category is not excluded and whose score is strictly greater than
\* the threshold (each once, on the columns that remain).
C1_FilterExact ==
    Filtered =>
       /\ IsFrame(ret)
       /\ Len(ret.rows) = Cardinality(Qualifying)
       /\ \A q \in Qualifying : \E i \in 1..Len(ret.rows) : ret.rows[i] = Restrict(q, ret.columns)
       /\ \A i \in 1..Len(ret.rows) : \E q \in Qualifying : ret.rows[i] = Restrict(q, ret.columns)
       /\ Symbols(ret) = {q["Symbol"][1] : q \in Qualifying}

\* The example of C1: {A: 90, Banks; B: 70, Tobacco}, excluded {Tobacco},
\* threshold 80, filtered to {A}.
C1_Witness ==
    /\ Filtered
    /\ Symbols(arg.combined_df) = {"A", "B"}
    /\ RowOf(arg.combined_df, "A")["esg_score"] = <<90>>
    /\ RowOf(arg.combined_df, "A")["GICS Sub-Industry"] = <<"Banks">>
    /\ RowOf(arg.combined_df, "B")["esg_score"] = <<70>>
    /\ RowOf(arg.combined_df, "B")["GICS Sub-Industry"] = <<"Tobacco">>
    /\ arg.selected_sector = {"Tobacco"}
    /\ arg.min_esg_score = 80
    /\ IsFrame(ret) /\ Symbols(ret) = {"A"}

\* C2: clean_data applied with the same parameters to its own output
\* succeeds and returns the same records.
C2_Idempotent ==
    (fn = "clean_data" /\ step = "reapplied") => (IsFrame(ret2) /\ ret2 = ret)

\* C3: every record of the filtered output has a score strictly greater than
\* the threshold; a score equal to the threshold or missing never appears.
C3_ScoreAboveThreshold ==
    Filtered =>
       /\ IsFrame(ret)
       /\ \A i \in 1..Len(ret.rows) :
            /\ "esg_score" \in ret.columns
            /\ ret.rows[i]["esg_score"] # <<>>
            /\ ret.rows[i]["esg_score"][1] > arg.min_esg_score

\* A universe with a score equal to the threshold, a missing score and a
\* score above it, filtered.
C3_Witness ==
    /\ Filtered
    /\ \E r \in Range(arg.combined_df.rows) : r["esg_score"] = <<arg.min_esg_score>>
    /\ \E r \in Range(arg.combined_df.rows) : r["esg_score"] = <<>>
    /\ IsFrame(ret) /\ Len(ret.rows) = 1

\* C4: no record of the filtered output has a category in the excluded set,
\* whatever the set (empty, or naming categories absent from the universe).
C4_NoExcludedCategory ==
    Filtered =>
       /\ IsFrame(ret)
       /\ \A i \in 1..Len(ret.rows) :
            /\ "GICS Sub-Industry" \in ret.columns
            /\ ret.rows[i]["GICS Sub-Industry"][1] \notin arg.selected_sector

\* An excluded set naming a category of the universe and one absent from
\* it, with a record excluded by category alone and a record kept.
C4_Witness ==
    /\ Filtered
    /\ arg.selected_sector = {"Tobacco", "Casinos & Gaming"}
    /\ \E r \in Range(arg.combined_df.rows) :
          /\ r["GICS Sub-Industry"] = <<"Tobacco">>
          /\ r["esg_score"] = <<90>>
    /\ IsFrame(ret) /\ Len(ret.rows) > 0

PriceLoaded == fn = "load_price_data" /\ step = "returned" /\ "Adj_Close" \in DOMAIN arg.data

\* The ticker columns of a price table that hold at least one price.
HasPrice(tb) == {t \in tb.columns : \E d \in 1..Len(tb.rows) : tb.rows[d][t] # <<>>}

\* C5: the price loader's output holds exactly the ticker columns of the
\* provider's table that have at least one non-missing price, unchanged.
C5_DropsAllMissingColumns ==
    PriceLoaded =>
       /\ IsFrame(ret)
       /\ ret.columns = HasPrice(arg.data.Adj_Close)
       /\ Len(ret.rows) = Len(arg.data.Adj_Close.rows)
       /\ \A d \in 1..Len(ret.rows) : \A t \in ret.columns :
             ret.rows[d][t] = arg.data.Adj_Close.rows[d][t]

\* The example of C5: columns A, B, C, with C entirely missing and A partly
\* missing, loaded as A, B.
C5_Witness ==
    /\ PriceLoaded
    /\ arg.data.Adj_Close.columns = {"A", "B", "C"}
    /\ \A d \in 1..PriceDays : arg.data.Adj_Close.rows[d]["C"] = <<>>
    /\ \E d \in 1..PriceDays : arg.data.Adj_Close.rows[d]["A"] = <<>>
    /\ IsFrame(ret) /\ ret.columns = {"A", "B"}

\* ------------------------------------------------------------------------
\* Claims about the render cycles (Spec)
\* ------------------------------------------------------------------------

HasWeights == asset_weights # NoValue

\* C6: every ticker of the weight vector (so every non-zero entry too) is a
\* ticker of this cycle's filtered universe and a column, holding a price, of
\* the price table handed to the optimizer, whatever was memoized before.
C6_WeightTickersFilteredAndPriced ==
    HasWeights =>
       /\ DOMAIN asset_weights \subseteq Symbols(combined_df_filtered)
       /\ DOMAIN asset_weights \subseteq cleaned_adj_close.columns
       /\ DOMAIN clean_wts(asset_weights) \subseteq DOMAIN asset_weights
       /\ \A t \in DOMAIN asset_weights :
             \E d \in 1..Len(cleaned_adj_close.rows) : cleaned_adj_close.rows[d][t] # <<>>

\* Weights produced while the cache holds the prices of another filter
\* setting, for tickers that are not in this cycle's filtered universe.
C6_Witness ==
    /\ HasWeights
    /\ \E t \in DOMAIN asset_weights : asset_weights[t] # 0
    /\ \E e \in price_cache :
          /\ e.key # combined_df_filtered
          /\ ~(e.value.columns \subseteq Symbols(combined_df_filtered))

\* C7: the bounds handed to the solver are the sliders' (min, max), in that
\* order, and every weight of the weight vector lies within them.
C7_WeightBoundsRespected ==
    /\ solver_bounds # NoValue =>
          solver_bounds = <<widgets.min_slider, widgets.max_slider>>
    /\ HasWeights =>
          \A t \in DOMAIN asset_weights :
             /\ widgets.min_slider <= asset_weights[t]
             /\ asset_weights[t] <= widgets.max_slider

\* Both sliders moved off their defaults, the other objective, and a weight
\* at the upper bound.
C7_Witness ==
    /\ HasWeights
    /\ widgets.min_slider = -50
    /\ widgets.max_slider = 50
    /\ widgets.objective = "Min Vol"
    /\ \E t \in DOMAIN asset_weights : asset_weights[t] = widgets.max_slider

Prefix(s, t) == Len(s) <= Len(t) /\ \A i \in 1..Len(s) : s[i] = t[i]

Ran(stage) == stage \in Range(stages)

\* C8: each cycle runs universe load, sidebar, filter, display, price load,
\* optimizer in that order and from scratch; price load and optimizer run
\* only in a cycle whose trigger was pressed, the optimizer only with a
\* price table loaded in that cycle, and a cycle without the press stops
\* right after the display.
C8_LinearGatedPipeline ==
    /\ Prefix(stages, StageOrder)
    /\ pc = "load_all_data" =>
          /\ stages = <<>>
          /\ combined_df = NoValue /\ inputs = NoValue /\ combined_df_filtered = NoValue
          /\ cleaned_adj_close = NoValue /\ asset_weights = NoValue
    /\ (Ran("load_price_data") \/ Ran("run_ef_model")) => pressed
    /\ pc \in {"load_price_data", "run_ef_model"} => pressed
    /\ (Ran("run_ef_model") \/ pc = "run_ef_model") =>
          (Ran("load_price_data") /\ cleaned_adj_close # NoValue)
    /\ pc = "stopped" => (~pressed /\ stages = SubSeq(StageOrder, 1, 4))
    /\ (~pressed /\ pc \in Ended /\ cycle > 0 /\ error = NoValue) => pc = "stopped"
    /\ pc = "finished" => stages = StageOrder

\* A cycle started by moving a sidebar control after an earlier press (the
\* prices are memoized): it stopped after the display.
C8_Witness ==
    /\ pc = "stopped"
    /\ price_cache # {}
    /\ widgets # DefaultWidgets
    /\ ~pressed
    /\ Cached(price_cache_key(combined_df_filtered)) # {}

\* C9: once load_snp_data (load_esg_scores) has returned, the page (the
\* score file) is never read again in this process and every later cycle
\* gets the table of that first successful load.
C9_LoadsMemoized ==
    [][ /\ snp_cache # NoValue =>
              /\ snp_cache' = snp_cache
              /\ reads'.snp = reads.snp
              /\ loaded'.snp \in {NoValue, snp_cache}
        /\ esg_cache # NoValue =>
              /\ esg_cache' = esg_cache
              /\ reads'.esg = reads.esg
              /\ loaded'.esg \in {NoValue, esg_cache}
      ]_vars

\* A third cycle, in a session opened after a widget was moved, served from
\* the tables read once; the page was read twice, its first read failed.
C9_Witness ==
    /\ cycle >= 3
    /\ reads = [snp |-> 2, esg |-> 1]
    /\ loaded.snp # NoValue /\ loaded.snp = snp_cache
    /\ loaded.esg # NoValue /\ loaded.esg = esg_cache
    /\ pc = "stopped"

=============================================================================
